---- MODULE Spec2Model ----
(***************************************************************************)
(* Model of flask-api/app2.py: the one-time ingestion of three CSV files   *)
(* into the SQLite file olympics.db (create_db_from_csv, run at import)    *)
(* and the JSON query routes served from that file afterwards.             *)
(*                                                                         *)
(* Text (a CSV cell, a URL path segment, a TEXT column value) is a         *)
(* sequence of one-character strings.  A value held by a SQLite column is  *)
(* a record [kind, n, s]: NULL, an INTEGER n or a TEXT s.                  *)
(*                                                                         *)
(* The file 'olympics.db' that sqlite3.connect opens and the file that     *)
(* SQLALCHEMY_DATABASE_URI names are taken to be one file (the process is  *)
(* started in the application's directory), and the templates the page     *)
(* routes and the 404 handler render are taken to be there.                *)
(***************************************************************************)
EXTENDS Integers, Sequences, FiniteSets, TLC

\* Largest number of data rows of data/summer_athlete_medals_count.csv.
MaxRows == 2
\* Longest country filter a request carries in its path.
MaxFilterLen == 2

Range(s) == {s[i] : i \in DOMAIN s}

\* The multiset of the elements of a sequence, as element -> count.
BagOf(s) == [x \in Range(s) |-> Cardinality({i \in DOMAIN s : s[i] = x})]

RECURSIVE SeqsUpTo(_, _)
SeqsUpTo(S, n) ==
    IF n = 0 THEN {<<>>}
    ELSE LET shorter == SeqsUpTo(S, n - 1)
         IN  shorter \cup {Append(s, x) : s \in {t \in shorter : Len(t) = n - 1}, x \in S}

---------------------------------------------------------------------------
(* Characters and text *)

Digits == <<"0", "1", "2", "3", "4", "5", "6", "7", "8", "9">>

IsDigit(c) == \E i \in DOMAIN Digits : Digits[i] = c

DigitValue(c) == (CHOOSE i \in DOMAIN Digits : Digits[i] = c) - 1

\* What the regular expression \d+ accepts.
IsDigits(t) == Len(t) > 0 /\ \A i \in DOMAIN t : IsDigit(t[i])

RECURSIVE ParseNat(_)
ParseNat(t) ==
    IF t = <<>> THEN 0
    ELSE 10 * ParseNat(SubSeq(t, 1, Len(t) - 1)) + DigitValue(t[Len(t)])

\* int() of a string of decimal digits, with or without a minus sign.
ParseInt(t) ==
    IF t # <<>> /\ Head(t) = "-" THEN 0 - ParseNat(Tail(t)) ELSE ParseNat(t)

\* The characters the model's texts are written with, in byte order (ASCII):
\* the order SQLite's default BINARY collation compares TEXT by.
ByteOrder ==
    <<"%", "-", "0", "1", "2", "3", "4", "5", "6", "7", "8", "9",
      "A", "F", "N", "S", "_",
      "a", "c", "d", "e", "f", "i", "l", "n", "r", "s", "t", "u", "x", "y">>

Byte(c) == CHOOSE i \in DOMAIN ByteOrder : ByteOrder[i] = c

\* lower() of SQLite: the ASCII capitals fold, every other character is kept.
LowerChar(c) ==
    CASE c = "A" -> "a"
      [] c = "F" -> "f"
      [] c = "N" -> "n"
      [] c = "S" -> "s"
      [] OTHER -> c

Lower(t) == [i \in DOMAIN t |-> LowerChar(t[i])]

\* memcmp order of two texts, strict.
RECURSIVE TextLess(_, _)
TextLess(a, b) ==
    IF b = <<>> THEN FALSE
    ELSE IF a = <<>> THEN TRUE
    ELSE IF Head(a) = Head(b) THEN TextLess(Tail(a), Tail(b))
    ELSE Byte(Head(a)) < Byte(Head(b))

\* Whether text t holds text f as a contiguous substring.
Contains(t, f) ==
    \E i \in 1..(Len(t) + 1) :
        /\ i + Len(f) - 1 <= Len(t)
        /\ SubSeq(t, i, i + Len(f) - 1) = f

---------------------------------------------------------------------------
(* Values of a SQLite column *)

Null == [kind |-> "null", n |-> 0, s |-> <<>>]

IntVal(k) == [kind |-> "int", n |-> k, s |-> <<>>]

TextVal(t) == [kind |-> "text", n |-> 0, s |-> t]

\* ORDER BY ... ASC of SQLite, strict: NULL first, then INTEGER by value, then
\* TEXT by the BINARY collation.
ValLess(a, b) ==
    CASE a.kind = "null" -> b.kind # "null"
      [] a.kind = "int"  -> \/ b.kind = "text"
                            \/ b.kind = "int" /\ a.n < b.n
      [] OTHER           -> b.kind = "text" /\ TextLess(a.s, b.s)

---------------------------------------------------------------------------
(* The source files under data/ *)

\* Cells pandas reads as a missing value (keep_default_na is left at its
\* default): the empty cell and NA stand for the list ("", "NA", "N/A", "NULL",
\* "NaN", "null", "nan", ...).
NaTokens == {<<>>, <<"N", "A">>}

Australia == <<"A", "u", "s", "t", "r", "a", "l", "i", "a">>
France == <<"F", "r", "a", "n", "c", "e">>
Sydney == <<"S", "y", "d", "n", "e", "y">>

AthleteColumns ==
    {"Year", "Country", "Host", "Athletes", "Sports", "Events",
     "Gold", "Silver", "Bronze", "Medals"}

AthleteCells(year, country, host, athletes, sports, events, gold, silver, bronze, medals) ==
    [Year |-> year, Country |-> country, Host |-> host, Athletes |-> athletes,
     Sports |-> sports, Events |-> events, Gold |-> gold, Silver |-> silver,
     Bronze |-> bronze, Medals |-> medals]

\* The data rows summer_athlete_medals_count.csv is made of, cell by cell as
\* written in the file.  One row names its country NA.
RowPool ==
    { AthleteCells(<<"1","9","5","6">>, Australia, <<"1">>, <<"2","9","4">>, <<"1","8">>,
                   <<"1","4","5">>, <<"1","3">>, <<"8">>, <<"1","4">>, <<"3","5">>),
      AthleteCells(<<"1","9","6","0">>, <<"N","A">>, <<"0">>, <<"4">>, <<"1">>,
                   <<"3">>, <<"0">>, <<"0">>, <<"0">>, <<"0">>),
      AthleteCells(<<"1","9","8","0">>, France, <<"0">>, <<"1","2","1">>, <<"1","3">>,
                   <<"8","4">>, <<"0">>, <<"0">>, <<"0">>, <<"0">>),
      AthleteCells(<<"2","0","0","0">>, Australia, <<"1">>, <<"6","1","7">>, <<"3","4">>,
                   <<"2","7","0">>, <<"1","6">>, <<"2","5">>, <<"1","7">>, <<"5","8">>),
      AthleteCells(<<"2","0","0","0">>, France, <<"0">>, <<"3","3","6">>, <<"2","8">>,
                   <<"1","8","5">>, <<"1","3">>, <<"1","4">>, <<"1","1">>, <<"3","8">>) }

AthleteFiles == SeqsUpTo(RowPool, MaxRows)

HostCountryColumns == {"Year", "Country", "City"}

HostCountryCells ==
    << [Year |-> <<"2","0","0","0">>, Country |-> Australia, City |-> Sydney] >>

SummerHostColumns == {"Year", "Host"}

SummerHostCells ==
    << [Year |-> <<"2","0","0","0">>, Host |-> Sydney] >>

\* A file on disk: missing, unparsable, or a header line and data rows.
MissingFile == [state |-> "missing", rows |-> <<>>]

MalformedFile == [state |-> "malformed", rows |-> <<>>]

CsvFile(rows) == [state |-> "ok", rows |-> rows]

\* pd.read_csv's type inference for one column: a column whose cells are all
\* decimal digits is read as integers; any other column is read as text with
\* the missing-value tokens turned into NaN.  (A numeric column holding a
\* missing value would be read as floats; no file of the model has one.)
ReadColumn(rows, col) ==
    IF \A i \in DOMAIN rows : IsDigits(rows[i][col])
    THEN [i \in DOMAIN rows |-> IntVal(ParseInt(rows[i][col]))]
    ELSE [i \in DOMAIN rows |->
            IF rows[i][col] \in NaTokens THEN Null ELSE TextVal(rows[i][col])]

\* pd.read_csv of a readable file: the DataFrame, row by row.
ReadCsv(rows, columns) ==
    [i \in DOMAIN rows |-> [c \in columns |-> ReadColumn(rows, c)[i]]]

---------------------------------------------------------------------------
(* The store olympics.db and its one-time creation *)

TableNames == {"host_country", "summer_olympics_host", "athletes"}

NoTable == [present |-> FALSE, rows |-> <<>>]

Table(rows) == [present |-> TRUE, rows |-> rows]

\* No file olympics.db.
NoStore == [exists |-> FALSE, tables |-> [t \in TableNames |-> NoTable]]

\* The file sqlite3.connect creates: a database with no table.
EmptyStore == [exists |-> TRUE, tables |-> [t \in TableNames |-> NoTable]]

\* DataFrame.to_sql(name, conn, index=False, if_exists='replace'): the table is
\* dropped if there and created from the frame; the call commits.
ToSql(store, name, frame) ==
    [store EXCEPT !.tables[name] = Table(frame)]

\* The frame read from each file, in the order the code reads them.
Frames(files) ==
    [host_country |-> ReadCsv(files.host_country.rows, HostCountryColumns),
     summer_olympics_host |-> ReadCsv(files.summer_olympics_host.rows, SummerHostColumns),
     athletes |-> ReadCsv(files.athletes.rows, AthleteColumns)]

\* What a complete ingestion of the files leaves in the store.
Ingested(files) ==
    [exists |-> TRUE, tables |-> [t \in TableNames |-> Table(Frames(files)[t])]]

\* The environment's part in one run: the step, if any, at which the disk
\* refuses (sqlite3.connect on an unwritable path, or one of the to_sql calls).
IoFaults == {"none", "connect", "host_country", "summer_olympics_host", "athletes"}

\* The outcome of a run: the store it leaves, the files it read (read_csv was
\* called on), the step that failed, whether the run returned at the existence
\* check, and whether an exception left the function.
Outcome(store, read, failed, skipped, raised) ==
    [store |-> store, read |-> read, failed |-> failed, skipped |-> skipped,
     raised |-> raised]

\* The try block of create_db_from_csv, entered with no file olympics.db:
\* connect, three read_csv, three to_sql, close.  Every exception is logged
\* and re-raised.
TryCreate(store, files, io) ==
    IF io = "connect"
    THEN Outcome(store, {}, "connect", FALSE, TRUE)
    ELSE
      LET frames == Frames(files)
          s1 == ToSql(EmptyStore, "host_country", frames.host_country)
          s2 == ToSql(s1, "summer_olympics_host", frames.summer_olympics_host)
          s3 == ToSql(s2, "athletes", frames.athletes)
      IN  IF files.host_country.state # "ok"
          THEN Outcome(EmptyStore, {"host_country"}, "read host_country", FALSE, TRUE)
          ELSE IF files.summer_olympics_host.state # "ok"
          THEN Outcome(EmptyStore, {"host_country", "summer_olympics_host"},
                       "read summer_olympics_host", FALSE, TRUE)
          ELSE IF files.athletes.state # "ok"
          THEN Outcome(EmptyStore, TableNames, "read athletes", FALSE, TRUE)
          ELSE IF io = "host_country"
          THEN Outcome(EmptyStore, TableNames, "write host_country", FALSE, TRUE)
          ELSE IF io = "summer_olympics_host"
          THEN Outcome(s1, TableNames, "write summer_olympics_host", FALSE, TRUE)
          ELSE IF io = "athletes"
          THEN Outcome(s2, TableNames, "write athletes", FALSE, TRUE)
          ELSE Outcome(s3, TableNames, "none", FALSE, FALSE)

\* create_db_from_csv without the existence check of the store.
CreateDbAlways(store, files, io) ==
    TryCreate(NoStore, files, io)

\* create_db_from_csv with an except clause that logs and does not re-raise.
CreateDbSwallow(store, files, io) ==
    IF store.exists
    THEN Outcome(store, {}, "none", TRUE, FALSE)
    ELSE [TryCreate(store, files, io) EXCEPT !.raised = FALSE]

\* create_db_from_csv.
CreateDbFromCsv(store, files, io) ==
    IF store.exists
    THEN \* "Database already exists, skipping creation"
         Outcome(store, {}, "none", TRUE, FALSE)
    ELSE TryCreate(store, files, io)

---------------------------------------------------------------------------
(* The query layer: SELECT ... FROM athletes WHERE ... ORDER BY ... *)

\* A SELECT over the rows of a table is given row by row: where[i] says
\* whether the WHERE clause keeps row i, before[i, j] whether the ORDER BY
\* clause sorts row i strictly before row j, and dicts[i] is the dictionary
\* the handler makes of row i.

\* The rowids a WHERE clause keeps.
Select(where) == {i \in DOMAIN where : where[i]}

\* ORDER BY: every order of the kept rows in which no row comes after one it
\* sorts strictly before.  Rows the keys do not tell apart come in any order.
OrderBy(ids, before) ==
    {p \in [1..Cardinality(ids) -> ids] :
        /\ \A i, j \in DOMAIN p : i # j => p[i] # p[j]
        /\ \A i, j \in DOMAIN p : i < j => ~before[p[j], p[i]]}

\* query.all() and the loop over it: the lists a handler can build.
Query(where, before, dicts) ==
    {[k \in DOMAIN p |-> dicts[p[k]]] : p \in OrderBy(Select(where), before)}

\* The operator LIKE of SQLite, on texts already folded: % stands for any run of
\* characters, _ for any one character, every other character for itself.
\* There is no escape character.
RECURSIVE Like(_, _)
Like(pat, t) ==
    IF pat = <<>> THEN t = <<>>
    ELSE IF Head(pat) = "%"
         THEN Like(Tail(pat), t) \/ (t # <<>> /\ Like(pat, Tail(t)))
    ELSE /\ t # <<>>
         /\ Head(pat) = "_" \/ Head(pat) = Head(t)
         /\ Like(Tail(pat), Tail(t))

\* column.ilike(f'%{name}%'), which the SQLite dialect renders as
\* lower(column) LIKE lower('%name%').  NULL is like nothing.
ILikeContains(v, name) ==
    /\ v.kind = "text"
    /\ Like(Lower(<<"%">> \o name \o <<"%">>), Lower(v.s))

\* Comparisons of a column with an integer.  NULL compares to nothing.
IntEq(v, k) == v.kind = "int" /\ v.n = k

IntGt(v, k) == v.kind = "int" /\ v.n > k

IntGe(v, k) == v.kind = "int" /\ v.n >= k

\* A response: the status, the list sent as JSON, and whether the body is
\* {"error": message} instead.
Ok(body) == [status |-> 200, body |-> body, error |-> FALSE]

ServerError == [status |-> 500, body |-> <<>>, error |-> TRUE]

NotFound == [status |-> 404, body |-> <<>>, error |-> FALSE]

\* A query raises when the file is locked or does not hold the athletes table
\* ("no such table: athletes").
Unavailable(store, locked) ==
    locked \/ ~store.exists \/ ~store.tables["athletes"].present

AthleteRows(store) == store.tables["athletes"].rows

---------------------------------------------------------------------------
(* The API routes *)

NoFilter == [given |-> FALSE, name |-> <<>>]

Filter(name) == [given |-> TRUE, name |-> name]

YearThenCountry(r1, r2) ==
    \/ ValLess(r1.Year, r2.Year)
    \/ r1.Year = r2.Year /\ ValLess(r1.Country, r2.Country)

YearAsc(r1, r2) == ValLess(r1.Year, r2.Year)

MedalsDesc(r1, r2) == ValLess(r2.Medals, r1.Medals)

YearThenMedalsDesc(r1, r2) ==
    \/ ValLess(r1.Year, r2.Year)
    \/ r1.Year = r2.Year /\ ValLess(r2.Medals, r1.Medals)

WinnerDict(r) ==
    [year |-> r.Year, country |-> r.Country, athletes |-> r.Athletes,
     sports |-> r.Sports, events |-> r.Events, gold |-> r.Gold,
     silver |-> r.Silver, bronze |-> r.Bronze, medals |-> r.Medals]

CountryDict(r) ==
    [year |-> r.Year, country |-> r.Country, gold |-> r.Gold,
     silver |-> r.Silver, bronze |-> r.Bronze, total_medals |-> r.Medals]

CountryMedalsDict(r) ==
    [year |-> r.Year, country |-> r.Country, total_medals |-> r.Medals]

NationDict(r) ==
    [Year |-> r.Year, Nation |-> r.Country, Gold |-> r.Gold,
     Silver |-> r.Silver, Bronze |-> r.Bronze, Medals |-> r.Medals]

\* entire_data_dump without the filter on Medals.
EntireDataDumpAnyMedals(store, locked, filter) ==
    IF Unavailable(store, locked) THEN {ServerError}
    ELSE LET rows == AthleteRows(store)
         IN  {Ok(b) : b \in
                Query([i \in DOMAIN rows |-> filter.given => ILikeContains(rows[i].Country, filter.name)],
                      [i, j \in DOMAIN rows |-> YearThenCountry(rows[i], rows[j])],
                      [i \in DOMAIN rows |-> WinnerDict(rows[i])])}

\* entire_data_dump: /api/all-medal-winners and /api/all-medal-winners/<country_name>.
EntireDataDump(store, locked, filter) ==
    IF Unavailable(store, locked) THEN {ServerError}
    ELSE LET rows == AthleteRows(store)
         IN  {Ok(b) : b \in
                Query([i \in DOMAIN rows |-> /\ IntGt(rows[i].Medals, 0)
                                             /\ filter.given =>
                                                  ILikeContains(rows[i].Country, filter.name)],
                      [i, j \in DOMAIN rows |-> YearThenCountry(rows[i], rows[j])],
                      [i \in DOMAIN rows |-> WinnerDict(rows[i])])}

\* The largest value sqlite3 binds as an INTEGER, 2^63 - 1, in decimal.
MaxInt64Text ==
    <<"9","2","2","3","3","7","2","0","3","6","8","5","4","7","7","5","8","0","7">>

RECURSIVE StripZeros(_)
StripZeros(t) ==
    IF Len(t) > 1 /\ Head(t) = "0" THEN StripZeros(Tail(t)) ELSE t

\* Whether the number a string of digits writes is above 2^63 - 1.
ExceedsInt64(t) ==
    LET u == StripZeros(IF t # <<>> /\ Head(t) = "-" THEN Tail(t) ELSE t)
    IN  \/ Len(u) > Len(MaxInt64Text)
        \/ Len(u) = Len(MaxInt64Text) /\ TextLess(MaxInt64Text, u)

\* A Python int: its value, or the mark that it is above 2^63 - 1.
PyInt(t) ==
    IF ExceedsInt64(t) THEN [big |-> TRUE, n |-> 0]
    ELSE [big |-> FALSE, n |-> ParseInt(t)]

\* total_medal_tally ordered by Medals ascending.
TotalMedalTallyAsc(store, locked, year) ==
    IF Unavailable(store, locked) \/ year.big THEN {ServerError}
    ELSE LET rows == AthleteRows(store)
         IN  {Ok(b) : b \in
                Query([i \in DOMAIN rows |-> IntEq(rows[i].Year, year.n)],
                      [i, j \in DOMAIN rows |-> ValLess(rows[i].Medals, rows[j].Medals)],
                      [i \in DOMAIN rows |-> CountryDict(rows[i])])}

\* total_medal_tally: /api/medals-tally/<int:selected_year>.  Binding a year
\* above 2^63 - 1 raises OverflowError, which the handler catches like any other.
TotalMedalTally(store, locked, year) ==
    IF Unavailable(store, locked) \/ year.big THEN {ServerError}
    ELSE LET rows == AthleteRows(store)
         IN  {Ok(b) : b \in
                Query([i \in DOMAIN rows |-> IntEq(rows[i].Year, year.n)],
                      [i, j \in DOMAIN rows |-> MedalsDesc(rows[i], rows[j])],
                      [i \in DOMAIN rows |-> CountryDict(rows[i])])}

\* total_medals: /api/total-medals.
TotalMedals(store, locked) ==
    IF Unavailable(store, locked) THEN {ServerError}
    ELSE LET rows == AthleteRows(store)
         IN  {Ok(b) : b \in
                Query([i \in DOMAIN rows |-> IntGe(rows[i].Year, 1980)],
                      [i, j \in DOMAIN rows |-> YearThenMedalsDesc(rows[i], rows[j])],
                      [i \in DOMAIN rows |-> CountryMedalsDict(rows[i])])}

\* host_countries filtering on Host == 0.
HostCountriesNonHost(store, locked) ==
    IF Unavailable(store, locked) THEN {ServerError}
    ELSE LET rows == AthleteRows(store)
         IN  {Ok(b) : b \in
                Query([i \in DOMAIN rows |-> IntEq(rows[i].Host, 0)],
                      [i, j \in DOMAIN rows |-> YearAsc(rows[i], rows[j])],
                      [i \in DOMAIN rows |-> CountryDict(rows[i])])}

\* host_countries: /api/host-countries.
HostCountries(store, locked) ==
    IF Unavailable(store, locked) THEN {ServerError}
    ELSE LET rows == AthleteRows(store)
         IN  {Ok(b) : b \in
                Query([i \in DOMAIN rows |-> IntEq(rows[i].Host, 1)],
                      [i, j \in DOMAIN rows |-> YearAsc(rows[i], rows[j])],
                      [i \in DOMAIN rows |-> CountryDict(rows[i])])}

\* country_medals: /api/country/<selected_country>.
CountryMedals(store, locked, name) ==
    IF Unavailable(store, locked) THEN {ServerError}
    ELSE LET rows == AthleteRows(store)
         IN  {Ok(b) : b \in
                Query([i \in DOMAIN rows |-> ILikeContains(rows[i].Country, name)],
                      [i, j \in DOMAIN rows |-> YearAsc(rows[i], rows[j])],
                      [i \in DOMAIN rows |-> CountryDict(rows[i])])}

\* total_medal_tally_year_after_1960: /api/medals-tally/years_after_1960.
TotalMedalTallyYearAfter1960(store, locked) ==
    IF Unavailable(store, locked) THEN {ServerError}
    ELSE LET rows == AthleteRows(store)
         IN  {Ok(b) : b \in
                Query([i \in DOMAIN rows |-> IntGe(rows[i].Year, 1960)],
                      [i, j \in DOMAIN rows |-> YearThenMedalsDesc(rows[i], rows[j])],
                      [i \in DOMAIN rows |-> NationDict(rows[i])])}

\* SELECT DISTINCT column FROM athletes ORDER BY column: the distinct values in
\* ascending order (one order only: distinct values are never tied).
DistinctSorted(rows, col) ==
    LET vals == {rows[i][col] : i \in DOMAIN rows}
    IN  {p \in [1..Cardinality(vals) -> vals] :
            \A i, j \in DOMAIN p : i < j => ValLess(p[i], p[j])}

\* get_countries: /api/countries.
GetCountries(store, locked) ==
    IF Unavailable(store, locked) THEN {ServerError}
    ELSE {Ok(b) : b \in DistinctSorted(AthleteRows(store), "Country")}

\* get_years: /api/years.
GetYears(store, locked) ==
    IF Unavailable(store, locked) THEN {ServerError}
    ELSE {Ok(b) : b \in DistinctSorted(AthleteRows(store), "Year")}

---------------------------------------------------------------------------
(* Routing of /api/medals-tally/<segment> *)

YearsAfter1960 ==
    <<"y","e","a","r","s","_","a","f","t","e","r","_","1","9","6","0">>

\* An integer as a client writes it: digits, with or without a minus sign.
IsInteger(seg) ==
    \/ IsDigits(seg)
    \/ Len(seg) > 1 /\ Head(seg) = "-" /\ IsDigits(Tail(seg))

\* The URL map with the rule declared <int(signed=True):selected_year>.
MedalsTallyEndpointSigned(seg) ==
    IF seg = YearsAfter1960 THEN "total_medal_tally_year_after_1960"
    ELSE IF IsInteger(seg) THEN "total_medal_tally"
    ELSE "page_not_found"

\* The endpoint the URL map picks: the static rule for its own path, the rule
\* <int:selected_year> for what the int converter's \d+ accepts, and no rule
\* (the 404 handler) for anything else.
MedalsTallyEndpoint(seg) ==
    IF seg = YearsAfter1960 THEN "total_medal_tally_year_after_1960"
    ELSE IF IsDigits(seg) THEN "total_medal_tally"
    ELSE "page_not_found"

\* The last path segments requests to /api/medals-tally/ carry: the years of
\* the data, a year without data, a year above 2^63 - 1, a negative year, a
\* word, and the static route's own name.
PathSegments ==
    {r.Year : r \in RowPool}
    \cup { <<"1","9","9","9">>, <<"0","2","0","0","0">>,
           <<"9","2","2","3","3","7","2","0","3","6","8","5","4","7","7","5","8","0","8">>,
           <<"-","1">>, <<"2","0","x">>, YearsAfter1960 }

\* The characters of country filters, and the filters: a path segment of the
\* string converter is never empty.
FilterChars == {"a", "N", "_", "%"}

Filters == SeqsUpTo(FilterChars, MaxFilterLen) \ {<<>>}

---------------------------------------------------------------------------
(* State *)

VARIABLES
    files,    \* the three files under data/
    store,    \* the file olympics.db
    locked,   \* whether the file cannot be read at present
    phase,    \* "down": no process; "serving": app.run is handling requests
    lastRun,  \* the latest run of create_db_from_csv (history)
    resp      \* the response the running process is sending, if any

vars == <<files, store, locked, phase, lastRun, resp>>

NoRun ==
    [ran |-> FALSE, existed |-> FALSE, before |-> NoStore, read |-> {},
     failed |-> "none", skipped |-> FALSE, raised |-> FALSE]

NoResp ==
    [path |-> "none", endpoint |-> "none", given |-> FALSE, arg |-> <<>>,
     queried |-> FALSE, unavailable |-> FALSE,
     status |-> 0, body |-> <<>>, error |-> FALSE]

\* The response r of endpoint e to a request on path p with argument a.
Response(p, e, given, a, queried, r) ==
    [path |-> p, endpoint |-> e, given |-> given, arg |-> a,
     queried |-> queried, unavailable |-> queried /\ Unavailable(store, locked),
     status |-> r.status, body |-> r.body, error |-> r.error]

\* A handler whose statement drops the athletes table.
AfterSelectDropped(s) == [s EXCEPT !.tables["athletes"] = NoTable]

\* The database file after a handler's statement: a SELECT through db.session
\* leaves it as it is.
AfterSelect(s) == s

Init ==
    /\ files \in [host_country : {MissingFile, CsvFile(HostCountryCells)},
                  summer_olympics_host : {MalformedFile, CsvFile(SummerHostCells)},
                  athletes : {MissingFile} \cup {CsvFile(rows) : rows \in AthleteFiles}]
    /\ store = NoStore
    /\ locked = FALSE
    /\ phase = "down"
    /\ lastRun = NoRun
    /\ resp = NoResp

\* python app2.py: the module is imported, which runs create_db_from_csv; an
\* exception ends the process before app.run.
Start ==
    /\ phase = "down"
    /\ \E io \in IoFaults :
         LET o == CreateDbFromCsv(store, files, io)
         IN  /\ store' = o.store
             /\ lastRun' = [ran |-> TRUE, existed |-> store.exists, before |-> store,
                            read |-> o.read, failed |-> o.failed,
                            skipped |-> o.skipped, raised |-> o.raised]
             /\ phase' = IF o.raised THEN "down" ELSE "serving"
    /\ resp' = NoResp
    /\ UNCHANGED <<files, locked>>

\* The serving process exits.  Whether the file is locked matters to a serving
\* process only, so the lock is forgotten.
Stop ==
    /\ phase = "serving"
    /\ phase' = "down"
    /\ resp' = NoResp
    /\ locked' = FALSE
    /\ UNCHANGED <<files, store, lastRun>>

\* Between two requests the file becomes unreadable (locked by another
\* program), or readable again.
ToggleLock ==
    /\ phase = "serving"
    /\ resp = NoResp
    /\ locked' = ~locked
    /\ UNCHANGED <<files, store, phase, lastRun, resp>>

\* The response has been sent; the process waits for the next request.
Sent ==
    /\ phase = "serving"
    /\ resp # NoResp
    /\ resp' = NoResp
    /\ UNCHANGED <<files, store, locked, phase, lastRun>>

\* The process is up and takes the next request.
Accepting == phase = "serving" /\ resp = NoResp

\* A request handled by a route of the query layer.
Handled(p, e, given, a, responses) ==
    /\ Accepting
    /\ \E r \in responses : resp' = Response(p, e, given, a, TRUE, r)
    /\ store' = AfterSelect(store)
    /\ UNCHANGED <<files, locked, phase, lastRun>>

AllMedalWinners ==
    Handled("all-medal-winners", "entire_data_dump", FALSE, <<>>,
            EntireDataDump(store, locked, NoFilter))

AllMedalWinnersOf ==
    \E f \in Filters :
        Handled("all-medal-winners", "entire_data_dump", TRUE, f,
                EntireDataDump(store, locked, Filter(f)))

MedalsTally ==
    \E seg \in PathSegments :
        LET e == MedalsTallyEndpoint(seg)
        IN  CASE e = "total_medal_tally" ->
                   Handled("medals-tally", e, TRUE, seg,
                           TotalMedalTally(store, locked, PyInt(seg)))
              [] e = "total_medal_tally_year_after_1960" ->
                   Handled("medals-tally", e, TRUE, seg,
                           TotalMedalTallyYearAfter1960(store, locked))
              [] OTHER ->
                   /\ Accepting
                   /\ resp' = Response("medals-tally", e, TRUE, seg, FALSE, NotFound)
                   /\ UNCHANGED <<files, store, locked, phase, lastRun>>

TotalMedalsRequest ==
    Handled("total-medals", "total_medals", FALSE, <<>>, TotalMedals(store, locked))

HostCountriesRequest ==
    Handled("host-countries", "host_countries", FALSE, <<>>, HostCountries(store, locked))

CountryRequest ==
    \E f \in Filters :
        Handled("country", "country_medals", TRUE, f, CountryMedals(store, locked, f))

CountriesRequest ==
    Handled("countries", "get_countries", FALSE, <<>>, GetCountries(store, locked))

YearsRequest ==
    Handled("years", "get_years", FALSE, <<>>, GetYears(store, locked))

Next ==
    \/ Start
    \/ Stop
    \/ ToggleLock
    \/ Sent
    \/ AllMedalWinners
    \/ AllMedalWinnersOf
    \/ MedalsTally
    \/ TotalMedalsRequest
    \/ HostCountriesRequest
    \/ CountryRequest
    \/ CountriesRequest
    \/ YearsRequest

Spec == Init /\ [][Next]_vars

---------------------------------------------------------------------------
(* Properties of the ingestion *)

\* C1: a run of create_db_from_csv that finds olympics.db present returns at
\* the existence check: it calls read_csv on no file, raises nothing, and
\* leaves the three tables as they were before the run.  This holds of every
\* such run, however many came before.
SkipLeavesStore ==
    (lastRun.ran /\ lastRun.existed) =>
        /\ lastRun.skipped
        /\ ~lastRun.raised
        /\ lastRun.read = {}
        /\ store = lastRun.before

\* A run found the file olympics.db with all three tables in it, while the
\* files it would have read are there to be read.
SkipReached ==
    /\ lastRun.ran /\ lastRun.existed
    /\ \A t \in TableNames : lastRun.before.tables[t].present
    /\ Len(AthleteRows(lastRun.before)) > 0
    /\ files.athletes.state = "ok"

\* C2: a request is answered only by a process whose create_db_from_csv
\* returned without an exception, and a run of create_db_from_csv in which a
\* step failed raises, ends the process before app.run and answers no request.
ServedOnlyAfterLoad ==
    /\ resp # NoResp =>
          /\ phase = "serving"
          /\ lastRun.ran /\ ~lastRun.raised /\ lastRun.failed = "none"
    /\ phase = "serving" => (lastRun.ran /\ lastRun.failed = "none")
    /\ (lastRun.ran /\ lastRun.failed # "none") =>
          /\ lastRun.raised
          /\ phase = "down"
          /\ resp = NoResp

\* A query is answered by the process that ingested the files itself.
ServedAfterIngestion ==
    /\ resp # NoResp /\ resp.queried /\ resp.status = 200
    /\ lastRun.ran /\ ~lastRun.existed /\ lastRun.read = TableNames

\* An ingestion failed on a file it could not read.
IngestionAborted ==
    /\ lastRun.ran /\ lastRun.raised
    /\ lastRun.failed = "read host_country"

\* C10: whenever the file olympics.db exists, it holds all three tables with
\* the complete contents of the source files.
StoreCompleteIfPresent ==
    store.exists => store = Ingested(files)

---------------------------------------------------------------------------
(* Properties of the queries *)

\* The bag of what a query is to return: the dictionaries of the rows kept,
\* keep[i] saying whether row i is one, each as often as it is in the table.
ExpectedBag(keep, dicts) ==
    LET kept == {i \in DOMAIN keep : keep[i]}
    IN  [d \in {dicts[i] : i \in kept} |-> Cardinality({i \in kept : dicts[i] = d})]

\* Whether the lowercased country of a row holds the lowercased filter as a
\* contiguous substring, every character of the filter standing for itself.
HoldsLiterally(r, f) ==
    r.Country.kind = "text" /\ Contains(Lower(r.Country.s), Lower(f))

\* C3: countryMedals(f) returns exactly the rows whose lowercased Country
\* holds lowercased f as a contiguous substring, and listMedalWinners(f) exactly
\* those of them with Medals > 0; every character of f, % and _ too, stands
\* for itself.
FilterIsLiteralSubstring ==
    LET rows == AthleteRows(store)
    IN  /\ (resp.endpoint = "country_medals" /\ resp.status = 200) =>
              BagOf(resp.body) =
                ExpectedBag([i \in DOMAIN rows |-> HoldsLiterally(rows[i], resp.arg)],
                            [i \in DOMAIN rows |-> CountryDict(rows[i])])
        /\ (resp.endpoint = "entire_data_dump" /\ resp.given /\ resp.status = 200) =>
              BagOf(resp.body) =
                ExpectedBag([i \in DOMAIN rows |-> /\ HoldsLiterally(rows[i], resp.arg)
                                                   /\ IntGt(rows[i].Medals, 0)],
                            [i \in DOMAIN rows |-> WinnerDict(rows[i])])

\* C4: every record listMedalWinners returns has Medals > 0; the records come
\* by Year ascending, then Country ascending; and the records returned with a
\* filter are among those returned without one.
WinnersPositiveOrderedSubset ==
    (resp.endpoint = "entire_data_dump" /\ resp.status = 200) =>
        /\ \A i \in DOMAIN resp.body : IntGt(resp.body[i].medals, 0)
        /\ \A i, j \in DOMAIN resp.body :
              i < j =>
                 /\ ~ValLess(resp.body[j].year, resp.body[i].year)
                 /\ resp.body[i].year = resp.body[j].year =>
                       ~ValLess(resp.body[j].country, resp.body[i].country)
        /\ \A all \in EntireDataDump(store, FALSE, NoFilter) :
              Range(resp.body) \subseteq Range(all.body)

\* A filtered list of winners that leaves out a winner of the unfiltered list.
FilteredWinnersReached ==
    /\ resp.endpoint = "entire_data_dump" /\ resp.given /\ resp.status = 200
    /\ Len(resp.body) > 0
    /\ \E all \in EntireDataDump(store, FALSE, NoFilter) :
          Range(all.body) \ Range(resp.body) # {}

\* Two winners of one year, told apart by Country alone.
WinnersOfOneYearReached ==
    /\ resp.endpoint = "entire_data_dump" /\ resp.status = 200
    /\ Len(resp.body) = 2
    /\ resp.body[1].year = resp.body[2].year
    /\ resp.body[1].country # resp.body[2].country

\* Whether a row is of the year a path segment writes.
IsOfYear(r, seg) ==
    /\ ~ExceedsInt64(seg)
    /\ IntEq(r.Year, ParseInt(seg))

\* What medalTally is to answer to the year seg when the store can be read:
\* status 200 and exactly the rows of that year, Medals never increasing; no
\* row of the year gives the empty list.
TallyAnswers(seg) ==
    /\ resp.status = 200 /\ ~resp.error
    /\ LET rows == AthleteRows(store)
       IN  BagOf(resp.body) =
             ExpectedBag([i \in DOMAIN rows |-> IsOfYear(rows[i], seg)],
                         [i \in DOMAIN rows |-> CountryDict(rows[i])])
    /\ \A i, j \in DOMAIN resp.body :
          i < j => ~ValLess(resp.body[i].total_medals, resp.body[j].total_medals)

TallyOfNoneReached ==
    /\ resp.endpoint = "total_medal_tally" /\ resp.status = 200
    /\ Len(resp.body) = 0
    /\ Len(AthleteRows(store)) > 0

\* C6: after a successful ingestion of the athletes file, listYears() is the
\* distinct Year cells of the file and listCountries() its distinct Country
\* cells, each strictly ascending.
DistinctRoundTrip ==
    /\ (resp.endpoint = "get_years" /\ resp.status = 200) =>
          /\ Range(resp.body) =
                {IntVal(ParseInt(r.Year)) : r \in Range(files.athletes.rows)}
          /\ \A i, j \in DOMAIN resp.body : i < j => ValLess(resp.body[i], resp.body[j])
    /\ (resp.endpoint = "get_countries" /\ resp.status = 200) =>
          /\ Range(resp.body) =
                {TextVal(r.Country) : r \in Range(files.athletes.rows)}
          /\ \A i, j \in DOMAIN resp.body : i < j => ValLess(resp.body[i], resp.body[j])

\* C7: hostCountryMedals() returns exactly the rows whose Host is 1, by Year
\* ascending, each with the row's Medals as total_medals.
HostRowsExactly ==
    (resp.endpoint = "host_countries" /\ resp.status = 200) =>
        /\ LET rows == AthleteRows(store)
           IN  BagOf(resp.body) =
                 ExpectedBag([i \in DOMAIN rows |-> IntEq(rows[i].Host, 1)],
                             [i \in DOMAIN rows |-> CountryDict(rows[i])])
        /\ \A i, j \in DOMAIN resp.body :
              i < j => ~ValLess(resp.body[j].year, resp.body[i].year)

\* The host list of a table with a row that is no host's: it has the record
\* Year 2000, Australia, total_medals 58.
HostAustraliaReached ==
    /\ resp.endpoint = "host_countries" /\ resp.status = 200
    /\ \E i \in DOMAIN resp.body :
          /\ resp.body[i].year = IntVal(2000)
          /\ resp.body[i].country = TextVal(Australia)
          /\ resp.body[i].total_medals = IntVal(58)
    /\ \E k \in DOMAIN AthleteRows(store) : AthleteRows(store)[k].Host = IntVal(0)

\* What holds of every failure: a query that fails is answered 500 with an
\* error body, and the process that answered is still serving.
FailureIsPerRequest ==
    /\ (resp.queried /\ resp.unavailable) => (resp.status = 500 /\ resp.error)
    /\ resp.status = 500 => resp.queried
    /\ resp # NoResp => phase = "serving"

====
